---- MODULE Spec2Model ----
(***************************************************************************)
(* Model of the interaction cassette system of imagen: the Recorder that   *)
(* accumulates interactions and writes a cassette file, the Replayer that  *)
(* serves a loaded cassette per (port, method), and the recording and      *)
(* replaying adapters of the image_generator port that share them behind   *)
(* a mutex.                                                                *)
(*                                                                         *)
(*   Spec        one Recorder, the cassette file, one Replayer, used       *)
(*               sequentially: record* ; finish ; load ; next_interaction* *)
(*   SpecAdapters  concurrent generate calls on a ServiceContext built for  *)
(*               recording or for replaying                                *)
(*   SpecPipeline  a recording run, then a replaying run of the file, one   *)
(*               call at a time; or a replaying run of a hand-written file *)
(*   SpecOverlap overlapping generate calls on the recording adapter,      *)
(*               numbered in the order in which they start                 *)
(*   SpecRun     one run of the program: validation, mode selection,      *)
(*               generate, the save loop, the end of the recording session *)
(***************************************************************************)
EXTENDS Integers, Sequences, FiniteSets, TLC

VARIABLES
    \* CassetteRecorder (recorder.rs:11-17); config holds its path, name and commit
    interactions, next_seq, recorder, config,
    \* the directories that exist, the file at the recorder's path, and what
    \* finish() / load_cassette() returned
    dirs, file, finishResult, loadResult,
    \* CassetteReplayer (replayer.rs:16-19)
    queues, cursors,
    \* what the last next_interaction call did, and the records served per pair
    lastResult, served,
    \* the record calls made so far and the task making each, in call order (history)
    callLog,
    \* adapter tasks: position, request, outcome of the live call / decoded
    \* outcome, value returned to the caller, seq read while building the record
    pc, req, res, ret, localSeq,
    \* Mutex<CassetteRecorder> / Mutex<CassetteReplayer>: holder and poison flag
    lock, poisoned,
    \* the ServiceContext in use: its mode and the adapter behind ctx.generator
    ctx,
    \* per task, the requests that reached the wrapped live implementation (history)
    liveLog,
    \* the tasks in the order in which they took the mutex (history)
    critLog,
    \* one run of the program (main.rs run): its arguments and environment, how
    \* far it got, the images saved and how it ended
    run

recorderVars == <<interactions, next_seq, recorder, config>>
fileVars     == <<dirs, file, finishResult, loadResult>>
replayerVars == <<queues, cursors>>
replayHist   == <<lastResult, served>>
taskVars     == <<pc, req, res, ret, localSeq, lock, poisoned, ctx, liveLog, critLog>>
vars == <<interactions, next_seq, recorder, config, dirs, file, finishResult, loadResult,
          queues, cursors, lastResult, served, callLog,
          pc, req, res, ret, localSeq, lock, poisoned, ctx, liveLog, critLog, run>>

----------------------------------------------------------------------------
(* Bounds and data *)

MaxRecords == 3
NTasks == 3
MaxCassette == 2

Tasks == 1..NTasks

GenPair == <<"image_generator", "generate">>
Pairs == {GenPair, <<"other", "generate">>}
ReqPairs == Pairs \cup {<<"image_generator", "edit">>}

\* serde_json::Value
JObj(f) == [j |-> "object", fields |-> f]
JStr(x) == [j |-> "string", s |-> x]
JArr(a) == [j |-> "array", items |-> a]
Has(v, key) == v.j = "object" /\ key \in DOMAIN v.fields

\* ImageRequest, by its prompt (the other fields travel with it unchanged)
Prompts == {"a cat", "a dog"}
RequestOf(p) == [prompt |-> p]
Requests == {RequestOf(p) : p \in Prompts}

\* serde_json::to_value(request)
ToJson(request) == JObj([prompt |-> JStr(request.prompt)])
Inputs == {ToJson(r) : r \in Requests}

None == [kind |-> "none"]

\* json!({ "Ok": inner }) and json!({ "Err": message })
OkJson(inner) == JObj([Ok |-> inner])
ErrJson(msg) == JObj([Err |-> JStr(msg)])

\* the opaque outputs of direct record calls: {"Ok": {"images": []}}, {"Err": "boom"}
Outputs == {OkJson(JObj([images |-> JArr(<<>>)])), ErrJson("boom")}

IsPrefix(s, t) == Len(s) <= Len(t) /\ s = SubSeq(t, 1, Len(s))
Range(s) == {s[i] : i \in 1..Len(s)}

----------------------------------------------------------------------------
(* CassetteRecorder *)

Interaction(seq, port, method, input, output) ==
    [seq |-> seq, port |-> port, method |-> method, input |-> input, output |-> output]

PushFront(list, interaction) == <<interaction>> \o list

\* self.interactions.push(interaction)
Push(list, interaction) == Append(list, interaction)

IncSeqForgotten(n) == n

\* self.next_seq += 1
IncSeq(n) == n + 1

\* CassetteRecorder::record: the whole call, as made by the recorder's one owner
record(port, method, input, output) ==
    /\ recorder = "open"
    /\ Len(interactions) < MaxRecords
    /\ interactions' = Push(interactions, Interaction(next_seq, port, method, input, output))
    /\ next_seq' = IncSeq(next_seq)
    /\ callLog' = Append(callLog, [task |-> 0, port |-> port, method |-> method,
                                   input |-> input, output |-> output])
    /\ UNCHANGED <<recorder, config, fileVars, replayerVars, replayHist, taskVars, run>>

----------------------------------------------------------------------------
(* The cassette file: serde_yaml of Cassette { name, recorded_at, commit,   *)
(* interactions }.  A document lists the interactions as items; a parsed    *)
(* cassette holds them as Interaction values.                               *)

Item(i) == <<i.seq, i.port, i.method, i.input, i.output>>
FromItem(t) == Interaction(t[1], t[2], t[3], t[4], t[5])

\* the instants Utc::now() can return: whole seconds, or with a sub-second part
Times == {[secs |-> 1, nanos |-> 0], [secs |-> 2, nanos |-> 500]}

TimeTextSeconds(t) == <<t.secs, 0>>

\* DateTime<Utc> as text: seconds and the fractional digits that are not zero
TimeText(t) == <<t.secs, t.nanos>>
TimeFromText(x) == [secs |-> x[1], nanos |-> x[2]]

\* serde_yaml::to_string(&cassette)
ToYaml(cassette) ==
    [kind |-> "yaml", name |-> cassette.name, recorded_at |-> TimeText(cassette.recorded_at),
     commit |-> cassette.commit,
     items |-> [n \in 1..Len(cassette.interactions) |-> Item(cassette.interactions[n])]]

\* serde_yaml::from_str::<Cassette>(&content)
FromYaml(doc) ==
    [name |-> doc.name, recorded_at |-> TimeFromText(doc.recorded_at), commit |-> doc.commit,
     interactions |-> [n \in 1..Len(doc.items) |-> FromItem(doc.items[n])]]

Missing == [kind |-> "missing"]
Unreadable == [kind |-> "unreadable"]
Garbage == [kind |-> "garbage"]

\* CassetteRecorder::new(path, name, commit)
Config1 == [path |-> "out/cassette.yaml", name |-> "test-recording", commit |-> "deadbeef"]
Config2 == [path |-> "cassette.yaml", name |-> "cli-recording", commit |-> "unknown"]
RecorderConfigs == {Config1, Config2}
Paths == {c.path : c \in RecorderConfigs}

\* Path::parent: "" for a bare file name
Parent(path) == IF path = "out/cassette.yaml" THEN "out" ELSE ""

\* the directories of a fresh working directory: "" stands for the directory itself
NoDirs == {""}

CreateDirAllSkipped(ds, d) == ds

\* std::fs::create_dir_all(parent)?, when it succeeds
CreateDirAll(ds, d) == ds \cup {d}

\* Cassette { name: self.name, recorded_at: Utc::now(), commit: self.commit,
\*            interactions: self.interactions }
FinishCassette(cfg, now, list) ==
    [name |-> cfg.name, recorded_at |-> now, commit |-> cfg.commit, interactions |-> list]

\* Ok(self.path)
FinishPath(cfg) == cfg.path

\* the std::io::Error that `?` returns from finish
IoError(op) == [kind |-> "err", error |-> "io", op |-> op]

\* what an interrupted std::fs::write can leave at the path: the old content (the
\* file could not be created), text cut inside an item or the header (not a
\* cassette), or text cut between two items (a shorter document that parses)
PartialWrites(old, doc) ==
    {old, Garbage} \cup {[doc EXCEPT !.items = SubSeq(doc.items, 1, n)] : n \in 1..(Len(doc.items) - 1)}

\* CassetteRecorder::finish: consumes the recorder whatever the outcome
finish_call ==
    /\ recorder = "open"
    /\ recorder' = "consumed"
    /\ \E now \in Times :
       LET cassette == FinishCassette(config, now, interactions)
           yaml == ToYaml(cassette)
           parent == Parent(config.path)
       IN  \/ \* create_dir_all(parent)? fails
              /\ parent \notin dirs
              /\ dirs' = dirs
              /\ file' = file
              /\ finishResult' = IoError("create_dir_all")
           \/ \* std::fs::write fails
              /\ dirs' = CreateDirAll(dirs, parent)
              /\ file' \in PartialWrites(file, yaml)
              /\ finishResult' = IoError("write")
           \/ \* std::fs::write needs the parent directory
              /\ dirs' = CreateDirAll(dirs, parent)
              /\ parent \in dirs'
              /\ file' = yaml
              /\ finishResult' = [kind |-> "ok", path |-> FinishPath(config), recorded_at |-> now]

\* finish called on a recorder the caller owns, nothing else moving
finish ==
    /\ finish_call
    /\ UNCHANGED <<interactions, next_seq, config, loadResult, replayerVars, replayHist,
                   callLog, taskVars, run>>

----------------------------------------------------------------------------
(* CassetteReplayer *)

KeyOf(i) == <<i.port, i.method>>

GroupOfMethod(list, key) == SelectSeq(list, LAMBDA i : i.method = key[2])

\* queues.entry(key).or_default().push(interaction.clone()), over the cassette
GroupOf(list, key) == SelectSeq(list, LAMBDA i : KeyOf(i) = key)

\* the list ordered by seq, records of equal seq in list order
BySeq(list) ==
    LET n == Len(list)
        rank(i) == Cardinality({j \in 1..n : \/ list[j].seq < list[i].seq
                                             \/ list[j].seq = list[i].seq /\ j < i}) + 1
    IN  [p \in 1..n |-> list[CHOOSE i \in 1..n : rank(i) = p]]

NewQueuesBySeq(cassette) ==
    [k \in {KeyOf(i) : i \in Range(cassette.interactions)} |->
        BySeq(GroupOf(cassette.interactions, k))]

\* CassetteReplayer::new: the queues
NewQueues(cassette) ==
    [k \in {KeyOf(i) : i \in Range(cassette.interactions)} |->
        GroupOf(cassette.interactions, k)]

\* CassetteReplayer::new: queues.keys().map(|k| (k.clone(), 0)).collect()
NewCursors(qs) == [k \in DOMAIN qs |-> 0]

AdvanceAll(cs, key) == [k \in DOMAIN cs |-> cs[k] + 1]

\* *cursor += 1
Advance(cs, key) == [cs EXCEPT ![key] = @ + 1]

PickFirst(queue, cursor) == queue[1]

\* let interaction = &queue[*cursor]  (0-based in the source)
Pick(queue, cursor) == queue[cursor + 1]

HasNextOffByOne(queue, cursor) == cursor + 1 < Len(queue)

\* assert!(*cursor < queue.len(), ...)
HasNext(queue, cursor) == cursor < Len(queue)

AvailableSkipFirst(qs) ==
    IF DOMAIN qs = {} THEN {} ELSE DOMAIN qs \ {CHOOSE k \in DOMAIN qs : TRUE}

\* self.queues.keys(), as listed in the "no interactions recorded" message
Available(qs) == DOMAIN qs

NextOutcomeRewind(qs, cs, key) ==
    IF key \notin DOMAIN qs
    THEN [kind |-> "panic", why |-> "no interactions recorded", key |-> key,
          available |-> Available(qs), cursors |-> cs]
    ELSE IF ~HasNext(qs[key], cs[key])
    THEN [kind |-> "panic", why |-> "all consumed", key |-> key,
          count |-> Len(qs[key]), cursors |-> [cs EXCEPT ![key] = 0]]
    ELSE [kind |-> "ok", key |-> key, interaction |-> Pick(qs[key], cs[key]),
          cursors |-> Advance(cs, key)]

\* the outcome of next_interaction on a replayer (qs, cs): the value returned or
\* the panic raised, and the cursors afterwards
NextOutcome(qs, cs, key) ==
    IF key \notin DOMAIN qs
    THEN [kind |-> "panic", why |-> "no interactions recorded", key |-> key,
          available |-> Available(qs), cursors |-> cs]
    ELSE IF key \notin DOMAIN cs
    THEN [kind |-> "panic", why |-> "cursor must exist", key |-> key, cursors |-> cs]
    ELSE IF ~HasNext(qs[key], cs[key])
    THEN [kind |-> "panic", why |-> "all consumed", key |-> key,
          count |-> Len(qs[key]), cursors |-> cs]
    ELSE [kind |-> "ok", key |-> key, interaction |-> Pick(qs[key], cs[key]),
          cursors |-> Advance(cs, key)]

Report(o) ==
    IF o.kind = "ok" THEN [kind |-> "ok", key |-> o.key, interaction |-> o.interaction]
    ELSE IF o.why = "no interactions recorded"
    THEN [kind |-> "panic", why |-> o.why, key |-> o.key, available |-> o.available]
    ELSE IF o.why = "all consumed"
    THEN [kind |-> "panic", why |-> o.why, key |-> o.key, count |-> o.count]
    ELSE [kind |-> "panic", why |-> o.why, key |-> o.key]

EmptyMap == [k \in {} |-> <<>>]

\* std::fs::read_to_string(path): the file lives at the recorder's path
ReadToString(path) == IF path = config.path THEN file ELSE Missing

\* the std::io::Error of a failed read
ReadError(content) == IF content = Missing THEN "not found" ELSE "permission denied"

LoadErrorNoPath(what, path, cause) == [kind |-> "err", error |-> what, cause |-> cause]

\* format!("Failed to read cassette file {}: {e}", path.display()), and the same
\* for "Failed to parse cassette file"
LoadError(what, path, cause) == [kind |-> "err", error |-> what, path |-> path, cause |-> cause]

\* cassette::config::load_cassette: read, parse, CassetteReplayer::new.  The
\* replayer is the value of the latest call: none after a failure.
load_cassette_call(path) ==
    /\ LET content == ReadToString(path)
       IN  IF content \in {Missing, Unreadable}
           THEN /\ loadResult' = LoadError("Failed to read cassette file", path,
                                           ReadError(content))
                /\ queues' = EmptyMap
                /\ cursors' = EmptyMap
           ELSE IF content = Garbage
           THEN /\ loadResult' = LoadError("Failed to parse cassette file", path,
                                           "invalid cassette")
                /\ queues' = EmptyMap
                /\ cursors' = EmptyMap
           ELSE /\ loadResult' = [kind |-> "ok", path |-> path]
                /\ queues' = NewQueues(FromYaml(content))
                /\ cursors' = NewCursors(queues')
    /\ lastResult' = None
    /\ served' = [k \in ReqPairs |-> <<>>]

\* load_cassette called on its own, nothing else moving
load_cassette(path) ==
    /\ load_cassette_call(path)
    /\ UNCHANGED <<recorderVars, dirs, file, finishResult, callLog, taskVars, run>>

QueuesReadTaken(qs, o) ==
    IF o.kind = "ok" THEN [qs EXCEPT ![o.key] = SelectSeq(@, LAMBDA i : i # o.interaction)]
    ELSE qs

\* self.queues.get(&key) and &queue[*cursor]: the queues are read, not changed
QueuesRead(qs, o) == qs

\* CassetteReplayer::next_interaction, called by the replayer's one owner
next_interaction(port, method) ==
    /\ loadResult.kind = "ok"
    /\ LET o == NextOutcome(queues, cursors, <<port, method>>)
       IN  /\ queues' = QueuesRead(queues, o)
           /\ cursors' = o.cursors
           /\ lastResult' = Report(o)
           /\ served' = IF o.kind = "ok"
                        THEN [served EXCEPT ![<<port, method>>] = Append(@, o.interaction)]
                        ELSE served
    /\ UNCHANGED <<recorderVars, fileVars, callLog, taskVars, run>>

----------------------------------------------------------------------------
(* Spec: one recorder, its file, one replayer, used by one owner *)

IdleTasks ==
    /\ pc = [t \in Tasks |-> "idle"]
    /\ req = [t \in Tasks |-> None]
    /\ res = [t \in Tasks |-> None]
    /\ ret = [t \in Tasks |-> None]
    /\ localSeq = [t \in Tasks |-> 0]
    /\ lock = 0
    /\ poisoned = FALSE
    /\ liveLog = [t \in Tasks |-> <<>>]
    /\ critLog = <<>>

Init ==
    /\ interactions = <<>>
    /\ next_seq = 0
    /\ recorder = "open"
    /\ config = Config1
    /\ dirs = NoDirs
    /\ file = Missing
    /\ finishResult = None
    /\ loadResult = None
    /\ queues = EmptyMap
    /\ cursors = EmptyMap
    /\ lastResult = None
    /\ served = [k \in ReqPairs |-> <<>>]
    /\ callLog = <<>>
    /\ ctx = None
    /\ run = None
    /\ IdleTasks

Record == \E k \in Pairs, i \in Inputs, o \in Outputs : record(k[1], k[2], i, o)
Finish == finish
Load == \E path \in Paths : load_cassette(path)
NextInteraction == \E k \in ReqPairs : next_interaction(k[1], k[2])

Next == Record \/ Finish \/ Load \/ NextInteraction

Spec == Init /\ [][Next]_vars

----------------------------------------------------------------------------
(* The image_generator port: results of generate, and their JSON forms *)

OkResult(v) == [tag |-> "Ok", value |-> v]
ErrResult(e) == [tag |-> "Err", error |-> e]

Image1 == [data |-> <<1, 2, 3>>, mime_type |-> "image/png"]
Response1 == [images |-> <<Image1>>]
ApiError == [variant |-> "Api", status |-> 500, message |-> "boom"]

\* what the wrapped live implementation can answer
LiveResults == {OkResult(Response1), ErrResult(ApiError)}

\* ImageError's Display
Display(e) ==
    IF e.variant = "Api"
    THEN "API error (" \o ToString(e.status) \o "): " \o e.message
    ELSE "Network error: " \o e.message

\* base64_bytes: STANDARD.encode / STANDARD.decode, on the byte strings in use
Base64(bytes) == IF bytes = <<1, 2, 3>> THEN "AQID" ELSE ""
IsBase64(text) == text \in {"AQID", ""}
Base64Decode(text) == IF text = "AQID" THEN <<1, 2, 3>> ELSE <<>>

\* serde_json::to_value(&ImageResponse)
ImageToJson(img) == JObj([data |-> JStr(Base64(img.data)), mime_type |-> JStr(img.mime_type)])
ResponseToJson(resp) ==
    JObj([images |-> JArr([n \in 1..Len(resp.images) |-> ImageToJson(resp.images[n])])])

\* serde_json::from_value::<ImageResponse>(value)
IsImageJson(x) ==
    /\ Has(x, "data") /\ x.fields.data.j = "string" /\ IsBase64(x.fields.data.s)
    /\ Has(x, "mime_type") /\ x.fields.mime_type.j = "string"
ImageFromJson(x) ==
    [data |-> Base64Decode(x.fields.data.s), mime_type |-> x.fields.mime_type.s]
ResponseFromJsonLenient(v) ==
    IF /\ Has(v, "images") /\ v.fields.images.j = "array"
       /\ \A n \in 1..Len(v.fields.images.items) : IsImageJson(v.fields.images.items[n])
    THEN OkResult([images |-> [n \in 1..Len(v.fields.images.items) |->
                                  ImageFromJson(v.fields.images.items[n])]])
    ELSE OkResult([images |-> <<>>])

ResponseFromJson(v) ==
    IF /\ Has(v, "images") /\ v.fields.images.j = "array"
       /\ \A n \in 1..Len(v.fields.images.items) : IsImageJson(v.fields.images.items[n])
    THEN OkResult([images |-> [n \in 1..Len(v.fields.images.items) |->
                                  ImageFromJson(v.fields.images.items[n])]])
    ELSE ErrResult("invalid ImageResponse")

OutputJsonErrAsOk(result) ==
    IF result.tag = "Ok" THEN OkJson(ResponseToJson(result.value))
    ELSE OkJson(JStr(Display(result.error)))

\* record_result: the Ok/Err JSON convention
OutputJson(result) ==
    IF result.tag = "Ok" THEN OkJson(ResponseToJson(result.value))
    ELSE ErrJson(Display(result.error))

replay_result_ErrUntagged(output) ==
    IF Has(output, "Ok") \/ Has(output, "ok")
    THEN ResponseFromJson(IF Has(output, "Ok") THEN output.fields.Ok ELSE output.fields.ok)
    ELSE ResponseFromJson(output)

replay_result_OkFirst(output) ==
    IF Has(output, "Ok") \/ Has(output, "ok")
    THEN ResponseFromJson(IF Has(output, "Ok") THEN output.fields.Ok ELSE output.fields.ok)
    ELSE IF Has(output, "Err") \/ Has(output, "err")
    THEN LET v == IF Has(output, "Err") THEN output.fields.Err ELSE output.fields.err
         IN  ErrResult(IF v.j = "string" THEN v.s ELSE "replayed error")
    ELSE ResponseFromJson(output)

\* replay_result::<ImageResponse>
replay_result(output) ==
    IF Has(output, "Err") \/ Has(output, "err")
    THEN LET v == IF Has(output, "Err") THEN output.fields.Err ELSE output.fields.err
         IN  ErrResult(IF v.j = "string" THEN v.s ELSE "replayed error")
    ELSE IF Has(output, "Ok") \/ Has(output, "ok")
    THEN ResponseFromJson(IF Has(output, "Ok") THEN output.fields.Ok ELSE output.fields.ok)
    ELSE ResponseFromJson(output)

\* ReplayingImageGenerator::generate: the decoded result, errors as ImageError::Api
ReplayedResult(output) ==
    LET r == replay_result(output)
    IN  IF r.tag = "Ok" THEN r
        ELSE ErrResult([variant |-> "Api", status |-> 0, message |-> r.error])

----------------------------------------------------------------------------
(* ServiceContext: the adapter behind ctx.generator *)

\* ServiceContext::recording
ServiceContext_recording == [mode |-> "recording", generator |-> "RecordingImageGenerator"]

ServiceContext_replaying_wrapsLive ==
    [mode |-> "replaying", generator |-> "RecordingImageGenerator"]

\* ServiceContext::replaying
ServiceContext_replaying == [mode |-> "replaying", generator |-> "ReplayingImageGenerator"]

\* the recording context after `ctx` went out of scope: the adapter and its
\* Arc<Mutex<CassetteRecorder>> are dropped, the session's Arc is the only one
ServiceContext_dropped == [mode |-> "recording", generator |-> "dropped"]

SoleOwnerUnchecked(c) == TRUE

\* Arc::try_unwrap(self.recorder) succeeds: no adapter holds the recorder
SoleOwner(c) == c.generator = "dropped"

RecorderLockUnguarded(holder) == TRUE

\* recorder.lock(): the mutex is free
RecorderLockFree(holder) == holder = 0

ReplayerLockUnguarded(holder) == TRUE

\* replayer.lock(): the mutex is free
ReplayerLockFree(holder) == holder = 0

----------------------------------------------------------------------------
(* RecordingImageGenerator::generate, one step per await / lock boundary *)

\* request.clone(); self.inner.generate(&request_clone) is called
rec_generate_start(t, request) ==
    /\ ctx.generator = "RecordingImageGenerator"
    /\ pc[t] = "idle"
    /\ pc' = [pc EXCEPT ![t] = "live"]
    /\ req' = [req EXCEPT ![t] = request]
    /\ liveLog' = [liveLog EXCEPT ![t] = Append(@, request)]
    /\ UNCHANGED <<recorderVars, fileVars, replayerVars, replayHist, callLog,
                   res, ret, localSeq, lock, poisoned, ctx, critLog, run>>

\* .await: the live implementation answers
live_complete(t, result) ==
    /\ pc[t] = "live"
    /\ pc' = [pc EXCEPT ![t] = "got"]
    /\ res' = [res EXCEPT ![t] = result]
    /\ UNCHANGED <<recorderVars, fileVars, replayerVars, replayHist, callLog,
                   req, ret, localSeq, lock, poisoned, ctx, liveLog, critLog, run>>

\* record_result up to recorder.lock()
record_result_lock(t) ==
    /\ pc[t] = "got"
    /\ RecorderLockFree(lock)
    /\ lock' = t
    /\ pc' = [pc EXCEPT ![t] = "locked"]
    /\ critLog' = Append(critLog, t)
    /\ UNCHANGED <<recorderVars, fileVars, replayerVars, replayHist, callLog,
                   req, res, ret, localSeq, poisoned, ctx, liveLog, run>>

\* CassetteRecorder::record under the guard: the Interaction is built from next_seq
record_build(t) ==
    /\ pc[t] = "locked"
    /\ localSeq' = [localSeq EXCEPT ![t] = next_seq]
    /\ pc' = [pc EXCEPT ![t] = "built"]
    /\ UNCHANGED <<recorderVars, fileVars, replayerVars, replayHist, callLog,
                   req, res, ret, lock, poisoned, ctx, liveLog, critLog, run>>

RecordedInteractionOfSuccess(seq, request, result) ==
    Interaction(seq, "image_generator", "generate", ToJson(request),
                OutputJson(OkResult(Response1)))

\* record_result(&recorder, "image_generator", "generate", &request_clone, &result):
\* the interaction recorded for a call, given the seq read under the guard
RecordedInteraction(seq, request, result) ==
    Interaction(seq, "image_generator", "generate", ToJson(request), OutputJson(result))

\* CassetteRecorder::record under the guard: next_seq += 1 and the push
record_append(t) ==
    /\ pc[t] = "built"
    /\ next_seq' = IncSeq(next_seq)
    /\ interactions' = Push(interactions, RecordedInteraction(localSeq[t], req[t], res[t]))
    /\ callLog' = Append(callLog, [task |-> t, port |-> "image_generator",
                                   method |-> "generate", input |-> ToJson(req[t]),
                                   output |-> OutputJson(res[t])])
    /\ pc' = [pc EXCEPT ![t] = "appended"]
    /\ UNCHANGED <<recorder, config, fileVars, replayerVars, replayHist,
                   req, res, ret, localSeq, lock, poisoned, ctx, liveLog, critLog, run>>

\* record_result returns (the guard is dropped) and generate returns `result`
rec_generate_return(t) ==
    /\ pc[t] = "appended"
    /\ lock' = 0
    /\ ret' = [ret EXCEPT ![t] = res[t]]
    /\ pc' = [pc EXCEPT ![t] = "done"]
    /\ UNCHANGED <<recorderVars, fileVars, replayerVars, replayHist, callLog,
                   req, res, localSeq, poisoned, ctx, liveLog, critLog, run>>

\* `ctx` is dropped; the futures of generate borrow ctx.generator, so none is alive
drop_context ==
    /\ ctx = ServiceContext_recording
    /\ \A t \in Tasks : pc[t] \in {"idle", "done"}
    /\ ctx' = ServiceContext_dropped
    /\ UNCHANGED <<recorderVars, fileVars, replayerVars, replayHist, callLog,
                   pc, req, res, ret, localSeq, lock, poisoned, liveLog, critLog, run>>

\* RecordingSession::finish: consumes the session; the recorder is finished only
\* when try_unwrap finds no other owner, else it stays with the adapter and can
\* no longer be finished
session_finish_call ==
    /\ ctx.mode = "recording"
    /\ recorder = "open"
    /\ IF SoleOwner(ctx)
       THEN finish_call
       ELSE /\ recorder' = "orphaned"
            /\ finishResult' = [kind |-> "err",
                                error |-> "Recording adapter still has references"]
            /\ UNCHANGED <<dirs, file>>

\* the session finished on its own, nothing else moving
session_finish ==
    /\ session_finish_call
    /\ UNCHANGED <<interactions, next_seq, config, loadResult, replayerVars, replayHist,
                   callLog, taskVars, run>>

----------------------------------------------------------------------------
(* ReplayingImageGenerator::generate, one step per lock boundary *)

ReplayKeyByPrompt(request) ==
    IF request.prompt = "a cat" THEN GenPair ELSE <<"other", "generate">>

\* next_output(self.replayer.as_ref(), "image_generator", "generate"): _request unused
ReplayKey(request) == GenPair

\* next_output: replayer.lock().expect("replayer lock poisoned")
replay_lock(t, request) ==
    /\ ctx.generator = "ReplayingImageGenerator"
    /\ pc[t] = "idle"
    /\ ReplayerLockFree(lock)
    /\ req' = [req EXCEPT ![t] = request]
    /\ critLog' = Append(critLog, t)
    /\ IF poisoned
       THEN /\ pc' = [pc EXCEPT ![t] = "panicked"]
            /\ ret' = [ret EXCEPT ![t] = [kind |-> "panic", why |-> "replayer lock poisoned"]]
            /\ lock' = lock
       ELSE /\ pc' = [pc EXCEPT ![t] = "rp_locked"]
            /\ lock' = t
            /\ ret' = ret
    /\ UNCHANGED <<recorderVars, fileVars, replayerVars, replayHist, callLog,
                   res, localSeq, poisoned, ctx, liveLog, run>>

\* next_interaction under the guard: the lookups, the assert and &queue[*cursor];
\* a panic unwinds through the guard and poisons the mutex
replay_read(t) ==
    /\ pc[t] = "rp_locked"
    /\ LET o == NextOutcome(queues, cursors, ReplayKey(req[t]))
       IN  IF o.kind = "ok"
           THEN /\ res' = [res EXCEPT ![t] = o.interaction]
                /\ localSeq' = [localSeq EXCEPT ![t] = cursors[o.key]]
                /\ pc' = [pc EXCEPT ![t] = "rp_read"]
                /\ UNCHANGED <<ret, lock, poisoned, run>>
           ELSE /\ ret' = [ret EXCEPT ![t] = Report(o)]
                /\ pc' = [pc EXCEPT ![t] = "panicked"]
                /\ poisoned' = TRUE
                /\ lock' = 0
                /\ UNCHANGED <<res, localSeq, run>>
    /\ UNCHANGED <<recorderVars, fileVars, replayerVars, replayHist, callLog,
                   req, ctx, liveLog, critLog, run>>

\* next_interaction under the guard: *cursor += 1; then next_output clones the
\* output and drops the guard
replay_advance(t) ==
    /\ pc[t] = "rp_read"
    /\ cursors' = Advance(cursors, ReplayKey(req[t]))
    /\ res' = [res EXCEPT ![t] = @.output]
    /\ lock' = 0
    /\ pc' = [pc EXCEPT ![t] = "rp_output"]
    /\ UNCHANGED <<recorderVars, fileVars, queues, replayHist, callLog,
                   req, ret, localSeq, poisoned, ctx, liveLog, critLog, run>>

\* the returned future: replay_result(output), errors mapped to ImageError::Api
replay_decode(t) ==
    /\ pc[t] = "rp_output"
    /\ ret' = [ret EXCEPT ![t] = ReplayedResult(res[t])]
    /\ pc' = [pc EXCEPT ![t] = "done"]
    /\ UNCHANGED <<recorderVars, fileVars, replayerVars, replayHist, callLog,
                   req, res, localSeq, lock, poisoned, ctx, liveLog, critLog, run>>

----------------------------------------------------------------------------
(* SpecAdapters: Tasks call ctx.generator.generate concurrently, once each *)

BoundedSeqs(S, n) == UNION {[1..m -> S] : m \in 0..n}

\* the interactions a cassette fixture is made of
FixtureRecords ==
    {[port |-> "image_generator", method |-> "generate",
      input |-> ToJson(RequestOf("a cat")), output |-> OutputJson(OkResult(Response1))],
     [port |-> "image_generator", method |-> "generate",
      input |-> ToJson(RequestOf("a dog")), output |-> OutputJson(ErrResult(ApiError))],
     [port |-> "other", method |-> "generate",
      input |-> ToJson(RequestOf("a cat")), output |-> OutputJson(OkResult(Response1))]}

Fixtures ==
    {[name |-> "fixture", recorded_at |-> [secs |-> 1, nanos |-> 0], commit |-> "abc",
      interactions |-> [n \in 1..Len(c) |->
          Interaction(n - 1, c[n].port, c[n].method, c[n].input, c[n].output)]]
       : c \in BoundedSeqs(FixtureRecords, MaxCassette)}

InitRecording ==
    /\ ctx = ServiceContext_recording
    /\ interactions = <<>>
    /\ next_seq = 0
    /\ recorder = "open"
    /\ config = Config1
    /\ dirs = NoDirs
    /\ file = Missing
    /\ finishResult = None
    /\ loadResult = None
    /\ queues = EmptyMap
    /\ cursors = EmptyMap

InitReplaying ==
    /\ ctx = ServiceContext_replaying
    /\ interactions = <<>>
    /\ next_seq = 0
    /\ recorder = "none"
    /\ config = Config1
    /\ dirs = CreateDirAll(NoDirs, Parent(config.path))
    /\ \E c \in Fixtures : file = ToYaml(c)
    /\ finishResult = None
    /\ loadResult = [kind |-> "ok", path |-> config.path]
    /\ queues = NewQueues(FromYaml(file))
    /\ cursors = NewCursors(queues)

InitAdapters ==
    /\ InitRecording \/ InitReplaying
    /\ lastResult = None
    /\ served = [k \in ReqPairs |-> <<>>]
    /\ callLog = <<>>
    /\ run = None
    /\ IdleTasks

RecGenerateStart == \E t \in Tasks, r \in Requests : rec_generate_start(t, r)
LiveComplete == \E t \in Tasks, r \in LiveResults : live_complete(t, r)
RecordResultLock == \E t \in Tasks : record_result_lock(t)
RecordBuild == \E t \in Tasks : record_build(t)
RecordAppend == \E t \in Tasks : record_append(t)
RecGenerateReturn == \E t \in Tasks : rec_generate_return(t)
DropContext == drop_context
SessionFinish == session_finish
ReplayLock == \E t \in Tasks, r \in Requests : replay_lock(t, r)
ReplayRead == \E t \in Tasks : replay_read(t)
ReplayAdvance == \E t \in Tasks : replay_advance(t)
ReplayDecode == \E t \in Tasks : replay_decode(t)

NextAdapters ==
    \/ RecGenerateStart \/ LiveComplete \/ RecordResultLock \/ RecordBuild
    \/ RecordAppend \/ RecGenerateReturn \/ DropContext \/ SessionFinish
    \/ ReplayLock \/ ReplayRead \/ ReplayAdvance \/ ReplayDecode

SpecAdapters == InitAdapters /\ [][NextAdapters]_vars

----------------------------------------------------------------------------
(* SpecOverlap: overlapping generate calls on the recording adapter.  The  *)
(* tasks are interchangeable, so they are numbered in the order in which    *)
(* they call generate: task t starts only after every task before it.       *)

\* the t-th call of generate starts
rec_generate_start_in_turn(t, request) ==
    /\ \A u \in Tasks : (u < t) => (pc[u] # "idle")
    /\ rec_generate_start(t, request)

InitOverlap ==
    /\ InitRecording
    /\ lastResult = None
    /\ served = [k \in ReqPairs |-> <<>>]
    /\ callLog = <<>>
    /\ run = None
    /\ IdleTasks

RecGenerateStartInTurn == \E t \in Tasks, r \in Requests : rec_generate_start_in_turn(t, r)

NextOverlap ==
    \/ RecGenerateStartInTurn \/ LiveComplete \/ RecordResultLock \/ RecordBuild
    \/ RecordAppend \/ RecGenerateReturn

SpecOverlap == InitOverlap /\ [][NextOverlap]_vars

----------------------------------------------------------------------------
(* SpecPipeline: one caller at a time.  A recording run calls generate on   *)
(* the recording adapter and finishes the recorder; a later run loads the   *)
(* file and calls the shared replayer, through next_output or through the   *)
(* replaying adapter.  The later run may also start from a file written by  *)
(* hand.  Every call runs to completion before the next one starts.         *)

\* RecordingImageGenerator::generate, the whole call: the live call, record_result
\* under the recorder's mutex, and the result handed back
recording_generate(request, result) ==
    /\ recorder = "open"
    /\ Len(interactions) < MaxRecords
    /\ interactions' = Push(interactions,
                            Interaction(next_seq, GenPair[1], GenPair[2],
                                        ToJson(request), OutputJson(result)))
    /\ next_seq' = IncSeq(next_seq)
    /\ callLog' = Append(callLog, [task |-> 1, port |-> GenPair[1], method |-> GenPair[2],
                                   input |-> ToJson(request), output |-> OutputJson(result),
                                   result |-> result])
    /\ ret' = [ret EXCEPT ![1] = result]
    /\ UNCHANGED <<recorder, config, fileVars, replayerVars, replayHist,
                   pc, req, res, localSeq, lock, poisoned, ctx, liveLog, critLog, run>>

\* ServiceContext::replaying(path): load_cassette, once per run
context_replaying(path) ==
    /\ loadResult = None
    /\ load_cassette(path)

NextOutputUnpoisoned(qs, cs, key, isPoisoned) == NextOutcome(qs, cs, key)

\* replayer.lock().expect("replayer lock poisoned").next_interaction(port, method)
NextOutputOutcome(qs, cs, key, isPoisoned) ==
    IF isPoisoned
    THEN [kind |-> "panic", why |-> "replayer lock poisoned", key |-> key, cursors |-> cs]
    ELSE NextOutcome(qs, cs, key)

\* what a call of next_output does to the shared replayer and its mutex: a panic
\* under the guard poisons the mutex
next_output_shared(o) ==
    /\ cursors' = o.cursors
    /\ lastResult' = Report(o)
    /\ served' = IF o.kind = "ok"
                 THEN [served EXCEPT ![o.key] = Append(@, o.interaction)]
                 ELSE served
    /\ poisoned' = (poisoned \/ o.kind = "panic")

\* replaying::next_output, the whole call
next_output(port, method) ==
    /\ loadResult.kind = "ok"
    /\ LET o == NextOutputOutcome(queues, cursors, <<port, method>>, poisoned)
       IN  /\ next_output_shared(o)
           /\ ret' = [ret EXCEPT ![1] = IF o.kind = "ok"
                                        THEN [kind |-> "output", value |-> o.interaction.output]
                                        ELSE Report(o)]
    /\ UNCHANGED <<recorderVars, fileVars, queues, callLog,
                   pc, req, res, localSeq, lock, ctx, liveLog, critLog, run>>

\* ReplayingImageGenerator::generate, the whole call
replaying_generate(request) ==
    /\ loadResult.kind = "ok"
    /\ LET o == NextOutputOutcome(queues, cursors, ReplayKey(request), poisoned)
       IN  /\ next_output_shared(o)
           /\ ret' = [ret EXCEPT ![1] = IF o.kind = "ok"
                                        THEN ReplayedResult(o.interaction.output)
                                        ELSE Report(o)]
    /\ UNCHANGED <<recorderVars, fileVars, queues, callLog,
                   pc, req, res, localSeq, lock, ctx, liveLog, critLog, run>>

\* outputs of cassettes written by hand: a bare payload, values that are not a
\* payload, lower-case tags, both tags, an error that is not a string, a tagged
\* success that is not a payload
AuthoredOutputs ==
    {ResponseToJson(Response1), JObj(<<>>), JStr("done"),
     JObj([ok |-> ResponseToJson(Response1)]), JObj([err |-> JStr("lower boom")]),
     JObj([Err |-> JStr("boom"), Ok |-> ResponseToJson(Response1)]),
     JObj([Err |-> JObj(<<>>)]), OkJson(JStr("done"))}

\* the seq values of cassettes written by hand: out of order and with gaps,
\* duplicated, in order with a gap
AuthoredSeqs == {<<5, 2>>, <<1, 1>>, <<0, 7>>}

\* cassettes of two records for the same pair whose seq is not the position
SeqCassettes ==
    {[name |-> "by-hand", recorded_at |-> [secs |-> 1, nanos |-> 0], commit |-> "abc",
      interactions |->
          <<Interaction(q[1], GenPair[1], GenPair[2], ToJson(RequestOf("a cat")),
                        OutputJson(OkResult(Response1))),
            Interaction(q[2], GenPair[1], GenPair[2], ToJson(RequestOf("a dog")),
                        OutputJson(ErrResult(ApiError)))>>]
       : q \in AuthoredSeqs}

AuthoredCassettes ==
    Fixtures \cup SeqCassettes \cup
    {[name |-> "by-hand", recorded_at |-> [secs |-> 1, nanos |-> 0], commit |-> "abc",
      interactions |-> <<Interaction(0, GenPair[1], GenPair[2], ToJson(RequestOf("a cat")), o)>>]
       : o \in AuthoredOutputs}

InitPipeline ==
    /\ \/ /\ recorder = "open"
          /\ config \in RecorderConfigs
          /\ dirs = NoDirs
          /\ file = Missing
       \/ /\ recorder = "none"
          /\ config = Config2
          /\ dirs = NoDirs
          /\ file \in {ToYaml(c) : c \in AuthoredCassettes} \cup {Unreadable}
    /\ interactions = <<>>
    /\ next_seq = 0
    /\ finishResult = None
    /\ loadResult = None
    /\ queues = EmptyMap
    /\ cursors = EmptyMap
    /\ lastResult = None
    /\ served = [k \in ReqPairs |-> <<>>]
    /\ callLog = <<>>
    /\ ctx = None
    /\ run = None
    /\ IdleTasks

RecordingGenerate == \E r \in Requests, x \in LiveResults : recording_generate(r, x)
ContextReplaying == \E path \in Paths : context_replaying(path)
NextOutput == \E k \in ReqPairs : next_output(k[1], k[2])
ReplayingGenerate == \E r \in Requests : replaying_generate(r)

NextPipeline == RecordingGenerate \/ Finish \/ ContextReplaying \/ NextOutput \/ ReplayingGenerate

SpecPipeline == InitPipeline /\ [][NextPipeline]_vars

----------------------------------------------------------------------------
(* SpecRun: one run of the program, main.rs run, from its arguments and   *)
(* environment to its exit                                                  *)

\* the checks of run that can reject, in source order
Checks == <<"config", "prompt", "model", "aspect_ratio", "size", "quality", "format">>

Faults == {Checks[n] : n \in 1..Len(Checks)}

\* the checks that concern the arguments: all but Config::load
ArgumentFaults == Faults \ {"config"}

RunError(variant, what) == [kind |-> "err", variant |-> variant, what |-> what]

RunOk == [kind |-> "ok"]

ValidateNothing(faults) == RunOk

\* run, from Config::load to validate_format: the first check that fails ends
\* the run with its error
Validate(faults) ==
    IF \E n \in 1..Len(Checks) : Checks[n] \in faults
    THEN LET n == CHOOSE m \in 1..Len(Checks) :
                      /\ Checks[m] \in faults
                      /\ \A l \in 1..(m - 1) : Checks[l] \notin faults
         IN  RunError(IF Checks[n] = "config" THEN "Config"
                      ELSE IF Checks[n] = "prompt" THEN "Io"
                      ELSE "InvalidArgument", Checks[n])
    ELSE RunOk

Unset == "unset"

SelectModeRecordingFirst(replay_path, is_recording) ==
    IF is_recording THEN "recording"
    ELSE IF replay_path # Unset THEN "replaying"
    ELSE "live"

\* if let Some(cassette_path) = replay_path / else if is_recording / else
SelectMode(replay_path, is_recording) ==
    IF replay_path # Unset THEN "replaying"
    ELSE IF is_recording THEN "recording"
    ELSE "live"

\* ServiceContext::live
ServiceContext_live == [mode |-> "live", generator |-> "LiveGenerator"]

\* the faults a run can have: at most two at once
FaultSets == {fs \in SUBSET Faults : Cardinality(fs) <= 2}

\* the validation part of run
run_validate ==
    /\ run.stage = "start"
    /\ LET v == Validate(run.faults)
       IN  run' = IF v.kind = "ok"
                  THEN [run EXCEPT !.stage = "validated"]
                  ELSE [run EXCEPT !.stage = "exited", !.exit = v]
    /\ UNCHANGED <<recorderVars, fileVars, replayerVars, replayHist, callLog, taskVars>>

\* the mode selection of run with ServiceContext::replaying, ::recording or ::live
run_context ==
    /\ run.stage = "validated"
    /\ LET mode == SelectMode(run.replay, run.rec)
       IN  IF mode = "replaying"
           THEN /\ load_cassette_call(run.replay)
                /\ IF loadResult'.kind = "ok"
                   THEN /\ ctx' = ServiceContext_replaying
                        /\ run' = [run EXCEPT !.stage = "ready"]
                   ELSE /\ ctx' = ctx
                        /\ run' = [run EXCEPT !.stage = "exited",
                                              !.exit = RunError("Config", "Failed to load cassette")]
                /\ UNCHANGED <<interactions, next_seq, recorder>>
           ELSE /\ IF run.key
                   THEN /\ ctx' = IF mode = "recording" THEN ServiceContext_recording
                                  ELSE ServiceContext_live
                        /\ recorder' = IF mode = "recording" THEN "open" ELSE recorder
                        /\ run' = [run EXCEPT !.stage = "ready"]
                   ELSE /\ ctx' = ctx
                        /\ recorder' = recorder
                        /\ run' = [run EXCEPT !.stage = "exited",
                                              !.exit = RunError("MissingApiKey", "live context")]
                /\ UNCHANGED <<interactions, next_seq, loadResult, replayerVars, replayHist>>
    /\ UNCHANGED <<config, dirs, file, finishResult, callLog,
                   pc, req, res, ret, localSeq, lock, poisoned, liveLog, critLog>>

\* the request run builds from the arguments
RunRequest == RequestOf("a cat")

\* ctx.generator.generate(&request).await? : Err ends the run
AfterGenerate(result) ==
    IF result.tag = "Ok" THEN [run EXCEPT !.stage = "generated"]
    ELSE [run EXCEPT !.stage = "exited", !.exit = RunError(result.error.variant, "generate")]

\* generate on the replaying adapter; a panic of next_output ends the process
run_generate_replaying ==
    /\ run.stage = "ready"
    /\ ctx.generator = "ReplayingImageGenerator"
    /\ LET o == NextOutputOutcome(queues, cursors, ReplayKey(RunRequest), poisoned)
       IN  /\ next_output_shared(o)
           /\ IF o.kind = "ok"
              THEN /\ ret' = [ret EXCEPT ![1] = ReplayedResult(o.interaction.output)]
                   /\ run' = AfterGenerate(ret'[1])
              ELSE /\ ret' = [ret EXCEPT ![1] = Report(o)]
                   /\ run' = [run EXCEPT !.stage = "exited", !.exit = [kind |-> "panic"]]
    /\ UNCHANGED <<recorderVars, fileVars, queues, callLog,
                   pc, req, res, localSeq, lock, ctx, liveLog, critLog>>

\* generate on the recording adapter: the live call, then record_result
run_generate_recording ==
    /\ run.stage = "ready"
    /\ ctx.generator = "RecordingImageGenerator"
    /\ \E result \in LiveResults :
          /\ liveLog' = [liveLog EXCEPT ![1] = Append(@, RunRequest)]
          /\ interactions' = Push(interactions,
                                  Interaction(next_seq, GenPair[1], GenPair[2],
                                              ToJson(RunRequest), OutputJson(result)))
          /\ next_seq' = IncSeq(next_seq)
          /\ callLog' = Append(callLog, [task |-> 1, port |-> GenPair[1], method |-> GenPair[2],
                                         input |-> ToJson(RunRequest),
                                         output |-> OutputJson(result), result |-> result])
          /\ ret' = [ret EXCEPT ![1] = result]
          /\ run' = AfterGenerate(result)
    /\ UNCHANGED <<recorder, config, fileVars, replayerVars, replayHist,
                   pc, req, res, localSeq, lock, poisoned, ctx, critLog>>

\* generate on the live adapter
run_generate_live ==
    /\ run.stage = "ready"
    /\ ctx.generator = "LiveGenerator"
    /\ \E result \in LiveResults :
          /\ liveLog' = [liveLog EXCEPT ![1] = Append(@, RunRequest)]
          /\ ret' = [ret EXCEPT ![1] = result]
          /\ run' = AfterGenerate(result)
    /\ UNCHANGED <<recorderVars, fileVars, replayerVars, replayHist, callLog,
                   pc, req, res, localSeq, lock, poisoned, ctx, critLog>>

\* what save_image can fail with: the write, or the conversion
SaveErrors == {"Io", "ImageConversion"}

\* the save loop of run: save_image(..)? per image, the first failure ends the run
run_save ==
    /\ run.stage = "generated"
    /\ LET images == ret[1].value.images
       IN  \/ run' = [run EXCEPT !.stage = "saved", !.saved = Len(images)]
           \/ \E n \in 0..(Len(images) - 1), e \in SaveErrors :
                 run' = [run EXCEPT !.stage = "exited", !.saved = n,
                                    !.exit = RunError(e, "save_image")]
    /\ UNCHANGED <<recorderVars, fileVars, replayerVars, replayHist, callLog, taskVars>>

\* the end of run: session.finish() when there is a recording session, its
\* error only printed, then Ok(()); ctx is still in scope
run_finish ==
    /\ run.stage = "saved"
    /\ IF ctx.mode = "recording"
       THEN session_finish_call
       ELSE UNCHANGED <<recorder, dirs, file, finishResult>>
    /\ run' = [run EXCEPT !.stage = "exited", !.exit = RunOk]
    /\ UNCHANGED <<interactions, next_seq, config, loadResult, replayerVars, replayHist,
                   callLog, taskVars>>

InitRun ==
    /\ run \in [stage : {"start"}, faults : FaultSets, replay : {Unset} \cup Paths,
                rec : BOOLEAN, key : BOOLEAN, saved : {0}, exit : {None}]
    /\ recorder = "none"
    /\ config = Config1
    /\ interactions = <<>>
    /\ next_seq = 0
    /\ file \in IF run.replay = Unset THEN {Missing}
                ELSE {ToYaml(c) : c \in AuthoredCassettes} \cup {Missing, Garbage}
    /\ dirs = IF file = Missing THEN NoDirs ELSE CreateDirAll(NoDirs, Parent(config.path))
    /\ finishResult = None
    /\ loadResult = None
    /\ queues = EmptyMap
    /\ cursors = EmptyMap
    /\ lastResult = None
    /\ served = [k \in ReqPairs |-> <<>>]
    /\ callLog = <<>>
    /\ ctx = None
    /\ IdleTasks

RunValidate == run_validate
RunContext == run_context
RunGenerateReplaying == run_generate_replaying
RunGenerateRecording == run_generate_recording
RunGenerateLive == run_generate_live
RunSave == run_save
RunFinish == run_finish

NextRun ==
    \/ RunValidate \/ RunContext \/ RunGenerateReplaying \/ RunGenerateRecording
    \/ RunGenerateLive \/ RunSave \/ RunFinish

SpecRun == InitRun /\ [][NextRun]_vars

----------------------------------------------------------------------------
(* Claims checked under Spec *)

\* an interaction or a record call without its seq: the content
Content(i) == [port |-> i.port, method |-> i.method, input |-> i.input, output |-> i.output]
Contents(list) == [n \in 1..Len(list) |-> Content(list[n])]

\* the replayer was loaded from the file a successful finish() wrote
Replaying == finishResult.kind = "ok" /\ loadResult.kind = "ok"

\* the record calls made for a pair, in call order
Recorded(k) == Contents(GroupOf(callLog, k))

\* the last next_interaction call was for k and panicked
PanickedFor(k) == lastResult.kind = "panic" /\ lastResult.key = k

\* C1 (order preservation): after finish() and load(), the records that
\* next_interaction has returned for a pair are, by content, the first record
\* calls made for that pair in call order, and no call fails before all N of
\* them have been returned.
C1_OrderPreservation ==
    Replaying =>
        \A k \in ReqPairs :
            /\ IsPrefix(Contents(served[k]), Recorded(k))
            /\ PanickedFor(k) => Len(served[k]) = Len(Recorded(k))

C1_Witness ==
    /\ Replaying
    /\ Len(Recorded(GenPair)) = 3
    /\ Len(served[GenPair]) = 3
    /\ served[GenPair][1].input # served[GenPair][2].input
    /\ served[GenPair][2].output # served[GenPair][3].output

\* C2 (partition independence): with records of several pairs interleaved,
\* each pair is served in its own recorded order, and a next_interaction call
\* for one pair changes no other pair's cursor or served records.
C2_OwnOrder ==
    Replaying => \A k \in Pairs : IsPrefix(Contents(served[k]), Recorded(k))

C2_Frame ==
    \A k \in ReqPairs :
        next_interaction(k[1], k[2]) =>
            /\ DOMAIN cursors' = DOMAIN cursors
            /\ \A q \in DOMAIN cursors \ {k} : cursors'[q] = cursors[q]
            /\ \A q \in ReqPairs \ {k} : served'[q] = served[q]

C2_PartitionIndependence == []C2_OwnOrder /\ [][C2_Frame]_vars

C2_Witness ==
    /\ Replaying
    /\ [n \in 1..Len(callLog) |-> callLog[n].port] = <<"image_generator", "other", "image_generator">>
    /\ Len(served[GenPair]) = 2
    /\ cursors[<<"other", "generate">>] = 0
    /\ lastResult.kind = "ok" /\ lastResult.key = GenPair

\* the number of records the loaded file holds for a pair
FileCount(k) == Len(SelectSeq(file.items, LAMBDA it : <<it[2], it[3]>> = k))
FilePairs == {<<it[2], it[3]>> : it \in Range(file.items)}

\* C3 (exhaustion): for a pair with k >= 1 records, a call fails only after k
\* calls have succeeded, no more than k calls succeed, and the failure names
\* the count k.
C3_Exhaustion ==
    loadResult.kind = "ok" =>
        \A k \in FilePairs :
            /\ Len(served[k]) <= FileCount(k)
            /\ PanickedFor(k) =>
                  /\ lastResult.why = "all consumed"
                  /\ lastResult.count = FileCount(k)
                  /\ Len(served[k]) = FileCount(k)

C3_Witness ==
    /\ Replaying
    /\ PanickedFor(GenPair)
    /\ lastResult.why = "all consumed"
    /\ lastResult.count = 2
    /\ Len(served[GenPair]) = 2

\* C4 (unknown pair): a call for a pair with no record in the loaded cassette
\* fails, and the failure reports the requested pair and exactly the pairs
\* the cassette holds; pairs the cassette holds never fail that way.
C4_UnknownPair ==
    (loadResult.kind = "ok" /\ lastResult.kind # "none") =>
        IF lastResult.key \notin FilePairs
        THEN /\ lastResult.kind = "panic"
             /\ lastResult.why = "no interactions recorded"
             /\ lastResult.available = FilePairs
        ELSE lastResult.kind = "panic" => lastResult.why # "no interactions recorded"

C4_Witness ==
    /\ loadResult.kind = "ok"
    /\ lastResult.kind = "panic"
    /\ lastResult.key = <<"image_generator", "edit">>
    /\ lastResult.available = Pairs

\* C5 (seq invariant): the i-th interaction of a recorder (0-based) has seq i,
\* whatever its pair, next_seq is the number of interactions recorded, and a
\* step never changes or reorders the interactions recorded before it.
C5_SeqState ==
    /\ next_seq = Len(interactions)
    /\ \A n \in 1..Len(interactions) : interactions[n].seq = n - 1

C5_SeqInvariant == []C5_SeqState /\ [][IsPrefix(interactions, interactions')]_vars

C5_Witness ==
    /\ recorder = "open"
    /\ Len(interactions) = 3
    /\ [n \in 1..3 |-> interactions[n].port] = <<"image_generator", "other", "image_generator">>
    /\ interactions[3].seq = 2

\* C15: when finish() has failed with an I/O error, the recorder still holds the
\* interactions captured so far and finish() can be called on it again.
C15_RetryAfterFailedFinish ==
    (finishResult.kind = "err") =>
        /\ recorder = "open"
        /\ ENABLED finish

\* C16: a failed finish() leaves no file at the target path that a later
\* load_cassette accepts as a cassette.
C16_NoPartialCassette ==
    (finishResult.kind = "err") => (loadResult.kind # "ok")

\* a call of next_interaction for k fails on the replayer as it is / as it will be
WouldFail(k) == NextOutcome(queues, cursors, k).kind = "panic"
WouldFailNext(k) == NextOutcome(queues', cursors', k).kind = "panic"

C18_Step ==
    (loadResult.kind = "ok" /\ ~Load) =>
        \A k \in ReqPairs :
            WouldFail(k) =>
                /\ WouldFailNext(k)
                /\ next_interaction(k[1], k[2]) =>
                      /\ lastResult'.kind = "panic"
                      /\ lastResult'.key = k
                      /\ cursors' = cursors
                      /\ queues' = queues
                      /\ served' = served

\* C18: on one replayer, a pair for which next_interaction fails (it is absent from
\* the cassette, or all its records were served) keeps failing: no step of the
\* replayer makes a call for it succeed again, and a failing call changes no cursor,
\* no queue and serves nothing.
C18_FailurePermanent == [][C18_Step]_vars

C18_Witness ==
    /\ Replaying
    /\ lastResult.kind = "panic"
    /\ lastResult.key = GenPair
    /\ WouldFail(GenPair)
    /\ GenPair \in DOMAIN cursors
    /\ cursors[GenPair] = 2
    /\ Len(served[GenPair]) = 2
    /\ <<"other", "generate">> \in DOMAIN cursors
    /\ ~WouldFail(<<"other", "generate">>)

\* the groups of the loaded file: its pairs, and per pair its records in file order
LoadedGroups ==
    [k \in {<<file.items[n][2], file.items[n][3]>> : n \in DOMAIN file.items} |->
        GroupOf([n \in DOMAIN file.items |-> FromItem(file.items[n])], k)]

C21_State == (loadResult.kind = "ok") => (queues = LoadedGroups)

C21_Step ==
    (loadResult.kind = "ok" /\ ~Load) =>
        /\ queues' = queues
        /\ cursors' # cursors =>
              \E k \in DOMAIN cursors : cursors' = [cursors EXCEPT ![k] = @ + 1]

\* C21: a loaded cassette is immutable: the replayer's groups are those of the file
\* it was loaded from, and no call of next_interaction, successful or failing,
\* changes the set of pairs, the records of a group or their order; the only thing
\* a call changes in the replayer is one cursor.
C21_CassetteImmutable == []C21_State /\ [][C21_Step]_vars

C21_Witness ==
    /\ Replaying
    /\ queues = LoadedGroups
    /\ Cardinality(DOMAIN queues) = 2
    /\ lastResult.kind = "panic"
    /\ \E k \in DOMAIN cursors : cursors[k] = Len(queues[k]) /\ Len(served[k]) = 2
    /\ \E k \in DOMAIN cursors : cursors[k] = 0

\* the places of the replay index: a pair and a position in the pair's group
Slots(qs) == UNION {{<<k, p>> : p \in 1..Len(qs[k])} : k \in DOMAIN qs}

\* the records of the list at the positions in S, in list order
SubList(list, S) ==
    [p \in 1..Cardinality(S) |-> list[CHOOSE n \in S : Cardinality({m \in S : m < n}) = p - 1]]

\* owner names, for every position of the list, the one group its record is in:
\* the group of the record's own pair, which holds the records it owns in list order
Owns(qs, list, owner) ==
    /\ \A n \in DOMAIN list : owner[n] = KeyOf(list[n])
    /\ \A k \in DOMAIN qs : qs[k] = SubList(list, {n \in DOMAIN list : owner[n] = k})

C26_State ==
    (loadResult.kind = "ok") =>
        LET list == [n \in DOMAIN file.items |-> FromItem(file.items[n])]
        IN  /\ DOMAIN cursors = DOMAIN queues
            /\ \A k \in DOMAIN queues : queues[k] # <<>>
            /\ Cardinality(Slots(queues)) = Len(list)
            /\ \E owner \in [DOMAIN list -> DOMAIN queues] : Owns(queues, list, owner)

C26_Step ==
    (Load /\ loadResult'.kind = "ok") => (\A k \in DOMAIN cursors' : cursors'[k] = 0)

\* C26: the index built from a loaded cassette puts every interaction of the
\* list in exactly one group, the group of its own (port, method); each group
\* keeps the list's relative order; no group is empty; the group sizes add up
\* to the number of interactions; and every load leaves every cursor at 0
C26_IndexConstruction == []C26_State /\ [][C26_Step]_vars

\* a reload after a record was served: three records in two groups, the two of
\* one pair around the one of the other, all cursors back at 0
C26_Witness ==
    /\ loadResult.kind = "ok"
    /\ lastResult = None
    /\ DOMAIN queues = Pairs
    /\ Len(queues[GenPair]) = 2
    /\ queues[GenPair][1] # queues[GenPair][2]
    /\ KeyOf(FromItem(file.items[2])) # GenPair
    /\ \A k \in Pairs : cursors[k] = 0

C27_State ==
    (loadResult.kind = "ok") =>
        /\ DOMAIN cursors = DOMAIN queues
        /\ \A k \in DOMAIN cursors :
              /\ 0 <= cursors[k]
              /\ cursors[k] <= Len(queues[k])
        /\ \A k \in ReqPairs :
              Len(served[k]) = IF k \in DOMAIN cursors THEN cursors[k] ELSE 0
        /\ lastResult.kind = "panic" => lastResult.why # "cursor must exist"

C27_Step ==
    \A k \in ReqPairs :
        next_interaction(k[1], k[2]) =>
            IF lastResult'.kind = "ok"
            THEN /\ k \in DOMAIN cursors
                 /\ cursors' = [cursors EXCEPT ![k] = @ + 1]
                 /\ lastResult'.interaction = queues[k][cursors[k] + 1]
            ELSE cursors' = cursors

\* C27: while a cassette is loaded, the pairs that have a cursor are the pairs
\* that have a group and every cursor lies between 0 and the size of its
\* group; a successful call raises the cursor of its pair by one, leaves the
\* others alone and returns the record at the old cursor position; a failing
\* call moves no cursor; the "cursor must exist" failure never happens; and
\* the cursor of a pair is the number of successful calls made for it since
\* the load
C27_CursorInvariant == []C27_State /\ [][C27_Step]_vars

\* the second of two different records of a pair was served, the other pair
\* not yet asked
C27_Witness ==
    /\ loadResult.kind = "ok"
    /\ DOMAIN cursors = Pairs
    /\ cursors[GenPair] = 2
    /\ cursors[<<"other", "generate">>] = 0
    /\ lastResult.kind = "ok"
    /\ lastResult.interaction = queues[GenPair][2]
    /\ queues[GenPair][1] # queues[GenPair][2]

----------------------------------------------------------------------------
(* Claims checked under SpecAdapters *)

Recording == ctx.generator = "RecordingImageGenerator"

\* the positions of the interactions that task t appended
RecordsOf(t) == {n \in 1..Len(interactions) : callLog[n].task = t}

\* the tasks inside the recorder's critical section
InRecorder == {t \in Tasks : pc[t] \in {"locked", "built", "appended"}}

\* C6 (concurrent recording): with several tasks recording into one shared
\* recorder, at most one task is inside record at a time; in every interleaving
\* the seq values are pairwise different and equal 0..n-1 in list order, and
\* every task that has appended has its own record in the list (none is lost).
C6_ConcurrentRecording ==
    Recording =>
        /\ Cardinality(InRecorder) <= 1
        /\ \A m, n \in 1..Len(interactions) :
               m # n => interactions[m].seq # interactions[n].seq
        /\ \A n \in 1..Len(interactions) : interactions[n].seq = n - 1
        /\ next_seq = Len(interactions)
        /\ Len(interactions) = Cardinality({t \in Tasks : pc[t] \in {"appended", "done"}})
        /\ \A t \in Tasks :
               pc[t] \in {"appended", "done"} =>
                   \E n \in RecordsOf(t) :
                       /\ interactions[n].input = ToJson(req[t])
                       /\ interactions[n].output = OutputJson(res[t])

C6_Witness ==
    /\ Recording
    /\ Len(interactions) = 2
    /\ \E t, u \in Tasks : pc[t] = "built" /\ pc[u] = "done" /\ localSeq[t] = 2
    /\ interactions[1].output # interactions[2].output

\* the records of the adapter's pair in the loaded file, and the replayer's
\* cursor for that pair
GenItems == SelectSeq(file.items, LAMBDA it : <<it[2], it[3]>> = GenPair)
GenCursor == IF GenPair \in DOMAIN cursors THEN cursors[GenPair] ELSE 0

ReplayingMode == ctx.generator = "ReplayingImageGenerator"

\* task t has read a record / has read it and advanced the cursor
HasRead(t) == pc[t] \in {"rp_read", "rp_output", "done"}
HasAdvanced(t) == pc[t] \in {"rp_output", "done"}

\* C7 (concurrent replay): with several tasks replaying one pair through the
\* shared replayer, no two tasks get the same record, the records handed out
\* are exactly the first ones with none skipped, and a task between its read
\* and its advance holds the lock alone, so no other task sees that state.
C7_ConcurrentReplay ==
    ReplayingMode =>
        /\ \A t, u \in Tasks :
               (t # u /\ HasRead(t) /\ HasRead(u)) => localSeq[t] # localSeq[u]
        /\ {localSeq[t] : t \in {u \in Tasks : HasAdvanced(u)}} = 0..(GenCursor - 1)
        /\ \A t \in Tasks :
               pc[t] = "rp_read" =>
                   /\ lock = t
                   /\ localSeq[t] = GenCursor
                   /\ \A u \in Tasks \ {t} : pc[u] \notin {"rp_locked", "rp_read"}
        /\ \A t \in Tasks :
               HasAdvanced(t) =>
                   /\ localSeq[t] < Len(GenItems)
                   /\ res[t] = GenItems[localSeq[t] + 1][5]

C7_Witness ==
    /\ ReplayingMode
    /\ Len(GenItems) = 2
    /\ \E t, u, v \in Tasks :
           /\ pc[t] = "done" /\ localSeq[t] = 1
           /\ pc[u] = "rp_output" /\ localSeq[u] = 0
           /\ pc[v] = "panicked" /\ ret[v].why = "all consumed"

\* C8 (recording adapter transparency): every call is forwarded once, with its
\* request, to the live implementation; no record exists for a call before the
\* live call has answered; a call that has returned has exactly one interaction,
\* for ("image_generator", "generate"), holding its request and its outcome
\* tagged Ok or Err, and it returned exactly the live result.
C8_RecordingTransparency ==
    Recording =>
        \A t \in Tasks :
            /\ pc[t] # "idle" => liveLog[t] = <<req[t]>>
            /\ pc[t] \in {"idle", "live", "got", "locked", "built"} => RecordsOf(t) = {}
            /\ pc[t] = "done" =>
                  /\ ret[t] = res[t]
                  /\ ret[t] \in LiveResults
                  /\ Cardinality(RecordsOf(t)) = 1
                  /\ \A n \in RecordsOf(t) :
                         /\ KeyOf(interactions[n]) = GenPair
                         /\ interactions[n].input = JObj([prompt |-> JStr(req[t].prompt)])
                         /\ interactions[n].output =
                                IF ret[t].tag = "Ok"
                                THEN JObj([Ok |-> ResponseToJson(ret[t].value)])
                                ELSE JObj([Err |-> JStr(Display(ret[t].error))])

C8_Witness ==
    /\ Recording
    /\ \E t, u \in Tasks :
           /\ pc[t] = "done" /\ ret[t].tag = "Err"
           /\ pc[u] = "done" /\ ret[u].tag = "Ok"
           /\ req[t] # req[u]
    /\ Len(interactions) = 2

\* what the call made after n earlier calls must return, from the file alone
ExpectedReplay(n) ==
    IF n < Len(GenItems) THEN ReplayedResult(GenItems[n + 1][5])
    ELSE IF n > Len(GenItems) THEN [kind |-> "panic", why |-> "replayer lock poisoned"]
    ELSE IF Len(GenItems) = 0
    THEN [kind |-> "panic", why |-> "no interactions recorded", key |-> GenPair,
          available |-> FilePairs]
    ELSE [kind |-> "panic", why |-> "all consumed", key |-> GenPair,
          count |-> Len(GenItems)]

\* C9 (replay ignores its input): what a replaying generate call returns is a
\* function of the cassette and of the number of calls made before it, whatever
\* the requests of this call and of the earlier calls were.
C9_ReplayIgnoresInput ==
    ReplayingMode =>
        \A n \in 1..Len(critLog) :
            pc[critLog[n]] \in {"done", "panicked"} => ret[critLog[n]] = ExpectedReplay(n - 1)

C9_Witness ==
    /\ ReplayingMode
    /\ Len(GenItems) = 2
    /\ Len(critLog) = 3
    /\ pc[critLog[1]] = "done" /\ pc[critLog[2]] = "done" /\ pc[critLog[3]] = "panicked"
    /\ req[critLog[1]] # req[critLog[2]]
    /\ ret[critLog[1]].tag = "Ok"
    /\ ret[critLog[2]].tag = "Err"
    /\ GenItems[1][4] # ToJson(req[critLog[1]])

\* C10 (no network in replay): in a replaying context no request reaches a
\* live implementation and nothing is recorded; every call that returns a
\* result returns the decoded output of the record the Replayer served it.
C10_NoLiveInReplay ==
    ctx.mode = "replaying" =>
        /\ interactions = <<>>
        /\ \A t \in Tasks :
               /\ liveLog[t] = <<>>
               /\ pc[t] \in {"idle", "rp_locked", "rp_read", "rp_output", "done", "panicked"}
               /\ pc[t] = "done" =>
                      /\ localSeq[t] < Len(GenItems)
                      /\ ret[t] = ReplayedResult(GenItems[localSeq[t] + 1][5])

C10_Witness ==
    /\ ctx.mode = "replaying"
    /\ \A t \in Tasks : pc[t] \in {"done", "panicked"}
    /\ \E t \in Tasks : pc[t] = "done" /\ ret[t] = OkResult(Response1)

\* the interactions a document lists
FileInteractions == [n \in DOMAIN file.items |-> FromItem(file.items[n])]

\* a recording run: the context of the run was built by ServiceContext::recording
RecordingRun == ctx.mode = "recording"

C20_State ==
    RecordingRun =>
        \* nothing is written, and no directory made, unless finish() ran
        /\ (recorder # "consumed") => (file = Missing /\ dirs = NoDirs)
        \* once finish() has started no record call is in progress
        /\ (recorder = "consumed") => (lock = 0 /\ \A t \in Tasks : pc[t] \in {"idle", "done"})
        \* the written cassette holds every accepted record call
        /\ (finishResult.kind = "ok") =>
              /\ Contents(FileInteractions) = Contents(callLog)
              /\ Len(file.items) = Cardinality({t \in Tasks : pc[t] = "done"})

C20_Step ==
    RecordingRun =>
        \* after finish(): no second finish, no record call takes effect
        /\ (recorder = "consumed") =>
              /\ recorder' = "consumed"
              /\ interactions' = interactions
              /\ next_seq' = next_seq
              /\ callLog' = callLog
              /\ file' = file
              /\ dirs' = dirs
              /\ finishResult' = finishResult
        \* file I/O is a step of finish(), taken outside record's critical section
        /\ (file' # file \/ dirs' # dirs) =>
              /\ recorder = "open"
              /\ recorder' = "consumed"
              /\ lock = 0
              /\ lock' = 0
              /\ interactions' = interactions

\* C20: a recorder is finished at most once; once finish() has started no record
\* call is in progress or takes effect; the file and its directories are touched
\* only by finish(), never while a task holds the recorder's lock; and the
\* cassette a successful finish() wrote holds every record call that was accepted.
C20_RecorderLifecycle == []C20_State /\ [][C20_Step]_vars

C20_Witness ==
    /\ RecordingRun
    /\ recorder = "consumed"
    /\ finishResult.kind = "ok"
    /\ Len(file.items) = 2
    /\ Cardinality({t \in Tasks : pc[t] = "done"}) = 2
    /\ \E t \in Tasks : pc[t] = "idle"

----------------------------------------------------------------------------
(* Claims checked under SpecPipeline *)

\* the last call was a replaying generate that returned a decoded result
Decoded ==
    /\ loadResult.kind = "ok"
    /\ lastResult.kind = "ok"
    /\ lastResult.key = GenPair
    /\ "tag" \in DOMAIN ret[1]

\* C11: results recorded through the recording adapter come back from the replaying
\* adapter in order with their tag: the n-th replayed result of a recording is a
\* success with the recorded payload when the n-th recorded result was a success,
\* and a failure whose message is the Display text of the original error when it
\* was a failure.
C11_TaggedRoundTrip ==
    (recorder = "consumed" /\ Decoded) =>
        LET n == Len(served[GenPair])
        IN  /\ n <= Len(callLog)
            /\ IF callLog[n].result.tag = "Ok"
               THEN ret[1] = OkResult(callLog[n].result.value)
               ELSE /\ ret[1].tag = "Err"
                    /\ ret[1].error.message = Display(callLog[n].result.error)

C11_Witness ==
    /\ recorder = "consumed"
    /\ Decoded
    /\ Len(callLog) = 2
    /\ callLog[1].result = OkResult(Response1)
    /\ callLog[2].result = ErrResult(ApiError)
    /\ Len(served[GenPair]) = 2
    /\ Contents(served[GenPair]) = Contents(callLog)
    /\ ret[1].tag = "Err"
    /\ ret[1].error.message = "API error (500): boom"

\* the output of the record the last call was served
LastOutput == lastResult.interaction.output

\* an output with none of the keys replay_result looks for
Untagged(v) == ~Has(v, "Ok") /\ ~Has(v, "ok") /\ ~Has(v, "Err") /\ ~Has(v, "err")

\* the ImageResponse values whose JSON form occurs in a cassette
KnownResponses == {Response1, [images |-> <<>>]}
IsPayload(v) == \E r \in KnownResponses : v = ResponseToJson(r)

\* C12 as stated: an output that carries neither tag is decoded as a successful
\* result whose payload is the whole output value.
C12_LegacyIsSuccess ==
    (Decoded /\ Untagged(LastOutput)) =>
        /\ ret[1].tag = "Ok"
        /\ ResponseToJson(ret[1].value) = LastOutput

\* C12 amended: an output that carries neither tag is decoded by deserializing the
\* whole output value as the payload: a successful result with that payload when
\* the value is the JSON form of an ImageResponse, and otherwise a failure (with
\* the deserialization error), never a success.
C12_LegacyDecodedWhole ==
    (Decoded /\ Untagged(LastOutput)) =>
        IF IsPayload(LastOutput)
        THEN /\ ret[1].tag = "Ok"
             /\ ResponseToJson(ret[1].value) = LastOutput
        ELSE /\ ret[1].tag = "Err"
             /\ ret[1].error.variant = "Api"
             /\ ret[1].error.status = 0

C12_Witness ==
    /\ Decoded
    /\ Untagged(LastOutput)
    /\ LastOutput = ResponseToJson(Response1)
    /\ ret[1] = OkResult(Response1)

\* what C13 requires of a step that returns from load_cassette(path) when the
\* file at path holds content
LoadAnswer(path, content) ==
    IF content \in {Missing, Unreadable, Garbage}
    THEN /\ loadResult'.kind = "err"
         /\ loadResult'.error = IF content = Garbage THEN "Failed to parse cassette file"
                                ELSE "Failed to read cassette file"
         /\ loadResult'.cause = IF content = Garbage THEN "invalid cassette"
                                ELSE IF content = Missing THEN "not found"
                                ELSE "permission denied"
         /\ queues' = EmptyMap
         /\ cursors' = EmptyMap
    ELSE /\ loadResult'.kind = "ok"
         /\ DOMAIN queues' = {<<content.items[n][2], content.items[n][3]>> : n \in DOMAIN content.items}
         /\ \A k \in DOMAIN queues' :
                Contents(queues'[k]) =
                Contents(GroupOf([n \in DOMAIN content.items |-> FromItem(content.items[n])], k))
         /\ DOMAIN cursors' = DOMAIN queues'
         /\ \A k \in DOMAIN cursors' : cursors'[k] = 0

C13_LoadStep ==
    (loadResult' # loadResult) =>
        /\ "path" \in DOMAIN loadResult'
        /\ loadResult'.path \in Paths
        /\ LoadAnswer(loadResult'.path, ReadToString(loadResult'.path))
        /\ lastResult'.kind # "panic"
        /\ poisoned' = poisoned
        /\ pc' = pc

C13_NoReplayer ==
    (loadResult.kind = "err") =>
        /\ queues = EmptyMap
        /\ cursors = EmptyMap
        /\ lastResult = None

\* C13: load_cassette(path) on a missing, unreadable or malformed file returns a
\* failure that names the path and the underlying error, without a panic and with
\* no replayer (no call is ever served from a failed load); on a well-formed file
\* it returns a replayer holding the file's interactions per pair, every cursor 0.
C13_LoadCassette == []C13_NoReplayer /\ [][C13_LoadStep]_vars

C13_Witness ==
    /\ loadResult.kind = "err"
    /\ loadResult.error = "Failed to parse cassette file"
    /\ loadResult.path = config.path
    /\ file = Garbage
    /\ queues = EmptyMap

\* C14: finish() consumes the recorder; when it returns Ok, the file at the
\* configured path holds the recorder's name and commit and every recorded
\* interaction in recording order (seq 0, 1, ...), the parent directory exists, and
\* the value returned is the configured path; otherwise it returns an I/O error and
\* the complete cassette is not at the path.  Nothing is written before finish(),
\* and a missing parent directory does not keep finish() from succeeding.
C14_FinishWrites ==
    /\ (recorder = "open") =>
          /\ finishResult = None
          /\ file = Missing
          /\ ENABLED (finish /\ finishResult'.kind = "ok")
    /\ (finishResult.kind = "ok") =>
          /\ recorder = "consumed"
          /\ file.kind = "yaml"
          /\ file.name = config.name
          /\ file.commit = config.commit
          /\ Contents(FileInteractions) = Contents(callLog)
          /\ \A n \in DOMAIN file.items : FileInteractions[n].seq = n - 1
          /\ Parent(config.path) \in dirs
          /\ finishResult.path = config.path
    /\ (finishResult.kind = "err") =>
          /\ recorder = "consumed"
          /\ finishResult.error = "io"
          /\ \/ file \in {Missing, Garbage}
             \/ Len(file.items) < Len(callLog)

C14_Witness ==
    /\ finishResult.kind = "ok"
    /\ config = Config1
    /\ finishResult.path = "out/cassette.yaml"
    /\ dirs = {"", "out"}
    /\ Len(file.items) = 2
    /\ file.name = "test-recording"
    /\ file.commit = "deadbeef"

FileGroup(k) == GroupOf(FileInteractions, k)

\* the records served for each pair are the first records of the pair in the file
ServedInOrder ==
    (loadResult.kind = "ok") =>
        \A k \in ReqPairs : IsPrefix(served[k], FileGroup(k))

\* C19 as stated: pairs are exhausted independently, also after a call for an
\* exhausted pair has failed: a call through the shared replayer fails only for a
\* pair that is absent or has no unconsumed record left, so a pair with records
\* left is still served them in recorded order.
C19_IndependentExhaustion ==
    /\ ServedInOrder
    /\ (loadResult.kind = "ok" /\ lastResult.kind = "panic") => WouldFail(lastResult.key)

C19_Step ==
    \A k \in ReqPairs :
        next_output(k[1], k[2]) =>
            IF poisoned
            THEN /\ lastResult'.kind = "panic"
                 /\ lastResult'.why = "replayer lock poisoned"
                 /\ cursors' = cursors
                 /\ served' = served
            ELSE IF WouldFail(k)
            THEN /\ lastResult'.kind = "panic"
                 /\ lastResult'.why \in {"no interactions recorded", "all consumed"}
                 /\ cursors' = cursors
                 /\ served' = served
                 /\ poisoned'
            ELSE /\ lastResult'.kind = "ok"
                 /\ lastResult'.interaction = FileGroup(k)[Len(served[k]) + 1]
                 /\ served' = [served EXCEPT ![k] = Append(@, lastResult'.interaction)]
                 /\ cursors' = [cursors EXCEPT ![k] = @ + 1]
                 /\ ~poisoned'

\* C19 amended: pairs are exhausted independently as long as no call has failed:
\* whatever the cursors of the other pairs, exhausted ones included, a call for a
\* pair with records left returns its next record in recorded order and moves only
\* that pair's cursor.  A failing call (pair absent or exhausted) changes no cursor
\* but poisons the shared lock, and from then on every call through the shared
\* replayer fails with "replayer lock poisoned", also for pairs that still have
\* unconsumed records, which stay unconsumed.
C19_IndependentUntilPoisoned == []ServedInOrder /\ [][C19_Step]_vars

C19_Witness ==
    /\ loadResult.kind = "ok"
    /\ poisoned
    /\ GenPair \in DOMAIN cursors
    /\ cursors[GenPair] = 1
    /\ WouldFail(GenPair)
    /\ lastResult.kind = "panic"
    /\ lastResult.key = <<"other", "generate">>
    /\ lastResult.why = "replayer lock poisoned"
    /\ ~WouldFail(<<"other", "generate">>)

\* the positions in the loaded file of the records of pair k, ascending
Positions(k) ==
    LET idx == {n \in DOMAIN FileInteractions : KeyOf(FileInteractions[n]) = k}
    IN  [p \in 1..Cardinality(idx) |->
            CHOOSE n \in idx : Cardinality({m \in idx : m < n}) = p - 1]

\* C25: replay does not look at seq: the n-th record served for a pair is the
\* record at the n-th position of that pair in the cassette's list, also when
\* the seq values are out of order, duplicated or not contiguous
C25_ListOrderNotSeq ==
    (loadResult.kind = "ok") =>
        \A k \in ReqPairs :
            /\ Len(served[k]) <= Len(Positions(k))
            /\ \A n \in 1..Len(served[k]) : served[k][n] = FileInteractions[Positions(k)[n]]

\* both records of a cassette whose seq runs 5, 2 were served: 5 first
C25_Witness ==
    /\ loadResult.kind = "ok"
    /\ Len(served[GenPair]) = 2
    /\ served[GenPair][1].seq = 5
    /\ served[GenPair][2].seq = 2

\* both records of a cassette whose two records have seq 1 were served
C25_WitnessDuplicate ==
    /\ loadResult.kind = "ok"
    /\ Len(served[GenPair]) = 2
    /\ served[GenPair][1].seq = served[GenPair][2].seq
    /\ served[GenPair][1] # served[GenPair][2]

\* the last call returned the decoding of value v as the payload: a success
\* with that payload, or a failure when v is not the JSON form of a payload
DecodedAsPayload(v) ==
    IF IsPayload(v)
    THEN /\ ret[1].tag = "Ok"
         /\ ResponseToJson(ret[1].value) = v
    ELSE ret[1].tag = "Err"

\* C28: replay_result looks for the failure tag first: an output with an "Err"
\* or "err" key is returned as a failure, also when it has an "Ok" key, the
\* message being the key's string or "replayed error" when the value is not a
\* string; without a failure key, an output with an "Ok" or "ok" key is
\* returned as the decoding of that key's value; only an output with none of
\* the four keys is decoded whole
C28_DecodingPrecedence ==
    Decoded =>
        LET v == LastOutput
        IN  IF Has(v, "Err") \/ Has(v, "err")
            THEN LET e == IF Has(v, "Err") THEN v.fields.Err ELSE v.fields.err
                 IN  /\ ret[1].tag = "Err"
                     /\ ret[1].error.message = IF e.j = "string" THEN e.s ELSE "replayed error"
            ELSE IF Has(v, "Ok") \/ Has(v, "ok")
            THEN DecodedAsPayload(IF Has(v, "Ok") THEN v.fields.Ok ELSE v.fields.ok)
            ELSE DecodedAsPayload(v)

\* an output with both tags came back as the failure
C28_Witness ==
    /\ Decoded
    /\ Has(LastOutput, "Err")
    /\ Has(LastOutput, "Ok")
    /\ IsPayload(LastOutput.fields.Ok)
    /\ ret[1].tag = "Err"
    /\ ret[1].error.message = "boom"

\* an error value that is not a string came back as "replayed error"
C28_WitnessNotString ==
    /\ Decoded
    /\ Has(LastOutput, "Err")
    /\ LastOutput.fields.Err.j # "string"
    /\ ret[1].tag = "Err"
    /\ ret[1].error.message = "replayed error"

----------------------------------------------------------------------------
(* Claims checked under SpecOverlap *)

\* the places of task t in the order in which the tasks took the recorder's lock
LockTurns(t) == {n \in 1..Len(critLog) : critLog[n] = t}

C29_State ==
    \* a call takes the lock, and so appends, only after its live call completed
    /\ \A t \in Tasks : pc[t] \in {"idle", "live", "got"} => LockTurns(t) = {}
    \* each call takes the lock once; a call that returned has its record
    /\ \A t \in Tasks : Cardinality(LockTurns(t)) <= 1
    /\ \A t \in Tasks : pc[t] = "done" => \E n \in LockTurns(t) : n <= Len(interactions)
    \* at most the call holding the lock has not appended yet
    /\ Len(interactions) <= Len(critLog)
    /\ Len(critLog) <= Len(interactions) + 1
    \* the n-th record is the record of the n-th call that took the lock: its
    \* request, its outcome, seq n - 1
    /\ \A n \in 1..Len(interactions) :
          /\ interactions[n].seq = n - 1
          /\ interactions[n].input = ToJson(req[critLog[n]])
          /\ interactions[n].output = OutputJson(res[critLog[n]])

C29_Step ==
    \A t \in Tasks :
        record_append(t) =>
            /\ res[t] \in LiveResults
            /\ lock = t
            /\ Len(interactions') = Len(interactions) + 1
            /\ SubSeq(interactions', 1, Len(interactions)) = interactions

\* C29: the recording adapter appends a call's interaction only after its live
\* call has completed and it holds the lock; the cassette lists the calls in
\* the order in which they took the lock, with seq 0, 1, 2, ..., which need
\* not be the order in which they were started; every call contributes one
\* record, made of its own request and its own outcome
C29_RecordingOrder == []C29_State /\ [][C29_Step]_vars

\* the call started second is first in the cassette; the two calls differ in
\* request and outcome
C29_Witness ==
    /\ critLog = <<2, 1>>
    /\ pc[1] = "done"
    /\ pc[2] = "done"
    /\ Len(interactions) = 2
    /\ interactions[1].seq = 0
    /\ interactions[1].input = ToJson(req[2])
    /\ interactions[2].input = ToJson(req[1])
    /\ req[1] # req[2]
    /\ res[1] # res[2]

----------------------------------------------------------------------------
(* Claims checked under SpecRun *)

\* nothing of a mode was touched: no context built, no cassette loaded, no
\* cursor moved, no record served, no recording started, no live call made
NoModeTouched ==
    /\ ctx = None
    /\ loadResult = None
    /\ queues = EmptyMap
    /\ cursors = EmptyMap
    /\ served = [k \in ReqPairs |-> <<>>]
    /\ recorder = "none"
    /\ interactions = <<>>
    /\ callLog = <<>>
    /\ liveLog = [t \in Tasks |-> <<>>]
    /\ finishResult = None

InvalidArguments == run.faults \cap ArgumentFaults # {}

C22_State ==
    InvalidArguments =>
        /\ NoModeTouched
        /\ run.stage \in {"start", "exited"}
        /\ run.stage = "exited" =>
              /\ run.exit.kind = "err"
              /\ run.exit.variant \in {"Config", "Io", "InvalidArgument"}
              /\ run.exit.what \in run.faults

C22_Step ==
    (InvalidArguments /\ run.stage = "start") =>
        /\ run'.stage = "exited"
        /\ run'.exit.kind = "err"
        /\ UNCHANGED <<recorderVars, fileVars, replayerVars, replayHist, callLog, taskVars>>

\* C22: a run whose arguments are invalid (prompt, model, aspect ratio, size,
\* quality or format) ends with an error in its first step, before a mode is
\* selected: whatever IMAGEN_REPLAY, IMAGEN_REC and the API key are, no
\* cassette is loaded, no cursor moves, no adapter is built or called and no
\* recording starts
C22_ValidationFirst == []C22_State /\ [][C22_Step]_vars

C22_Witness ==
    /\ run.stage = "exited"
    /\ run.faults = {"aspect_ratio"}
    /\ run.replay # Unset
    /\ run.rec
    /\ ~run.key
    /\ file \notin {Missing, Garbage}
    /\ run.exit = RunError("InvalidArgument", "aspect_ratio")

\* with IMAGEN_REPLAY set, only a replaying context is ever built: no recorder,
\* no recording session, no live call
ReplayingOnly ==
    /\ ctx \in {None, ServiceContext_replaying}
    /\ recorder = "none"
    /\ interactions = <<>>
    /\ callLog = <<>>
    /\ liveLog = [t \in Tasks |-> <<>>]
    /\ finishResult = None

\* the run asked the replayer and the record it got decodes to a success
ReplayedSuccess ==
    /\ served[GenPair] # <<>>
    /\ ReplayedResult(served[GenPair][1].output).tag = "Ok"

ReplayedImages == ReplayedResult(served[GenPair][1].output).value.images

\* mode selection with IMAGEN_REPLAY set: the cassette is loaded and, when it
\* loads, the context is the replaying one, whatever IMAGEN_REC and the key are
C23_Step ==
    (run.replay # Unset /\ run.stage = "validated") =>
        /\ loadResult' # None
        /\ loadResult'.kind = "ok" =>
              /\ ctx' = ServiceContext_replaying
              /\ run'.stage = "ready"

\* C23 as stated: with IMAGEN_REPLAY set the run replays, and when the record
\* served for (image_generator, generate) is a success, the images are saved
\* and the run succeeds
C23_ReplayWins ==
    run.replay # Unset =>
        /\ ReplayingOnly
        /\ (run.stage = "exited" /\ ReplayedSuccess) =>
              /\ run.exit = RunOk
              /\ run.saved = Len(ReplayedImages)

C23_State ==
    run.replay # Unset =>
        /\ ReplayingOnly
        /\ (run.stage = "exited" /\ ReplayedSuccess) =>
              IF run.saved = Len(ReplayedImages)
              THEN run.exit = RunOk
              ELSE /\ run.exit.kind = "err"
                   /\ run.exit.what = "save_image"
                   /\ run.saved < Len(ReplayedImages)

\* C23 amended: with IMAGEN_REPLAY set the run builds the replaying context and
\* nothing else, also with IMAGEN_REC set and no API key; when the record
\* served is a success, the run succeeds if every image was saved, and fails
\* only with the error of the save that failed
C23_ReplayWinsWhenSaved == []C23_State /\ [][C23_Step]_vars

C23_Witness ==
    /\ run.stage = "exited"
    /\ run.replay # Unset
    /\ run.rec
    /\ ~run.key
    /\ ReplayedSuccess
    /\ run.saved = 1
    /\ run.exit = RunOk

\* a recording run that came to its end: generate and every save succeeded
RecordingRunCompleted ==
    /\ run.stage = "exited"
    /\ run.exit = RunOk
    /\ ctx = ServiceContext_recording

\* the cassette file exists and holds the interactions recorded
CassetteHolds(list) ==
    /\ file \notin {Missing, Unreadable, Garbage}
    /\ FromYaml(file).interactions = list

\* C24: at the end of a recording run in which generate and every save
\* succeeded, the session's finish() failed only if the file system refused
\* the write, and otherwise the cassette file exists and holds the interaction
C24_CassetteWrittenOnCompletion ==
    RecordingRunCompleted =>
        /\ Len(interactions) = 1
        /\ \/ finishResult \in {IoError("create_dir_all"), IoError("write")}
           \/ /\ finishResult.kind = "ok"
              /\ CassetteHolds(interactions)

\* a recording run that failed after its call was recorded: generate returned
\* an error, or saving an image failed
RecordingRunFailed ==
    /\ run.stage = "exited"
    /\ run.exit.kind = "err"
    /\ ctx = ServiceContext_recording
    /\ interactions # <<>>

\* C30: when a recording run fails after an interaction was recorded, because
\* generate returned a failure or because saving an image failed, the
\* interaction is in the cassette file when the run ends, unless the file
\* system refused the write
C30_RecordingSurvivesFailedRun ==
    RecordingRunFailed =>
        \/ finishResult \in {IoError("create_dir_all"), IoError("write")}
        \/ CassetteHolds(interactions)

====
